---- MODULE Spec2Model ----
(***************************************************************************)
(* The day planner of client/pages/EventPlan.tsx: the form, the submit and *)
(* clear handlers, the recommendation builder buildRecs and the scroll     *)
(* timer that onSubmit schedules.  The contact page of                     *)
(* client/pages/Contact.tsx with its submit handler, and the handler of    *)
(* POST /api/contact in server/routes/contact.ts.  The mobile menu of      *)
(* client/components/NavBar.tsx and the hook usePageMeta of                *)
(* client/hooks/use-page-meta.ts that the pages run when they mount.       *)
(***************************************************************************)
EXTENDS Integers, Sequences, FiniteSets, TLC

VARIABLES
    form,      \* the state of the form controls in the document
    result,    \* React state `result`: NULL or [summary, recs]
    timers,    \* number of scheduled scroll timeouts that have not fired yet
    last,      \* history: the latest run of onSubmit (its form, picks, output)
    prev,      \* history: some earlier run of onSubmit, or NULL
    lastAct,   \* history: the button pressed last, "none" before the first
    cform,     \* the state of the controls of the contact form
    loading,   \* React state `loading` of the contact page
    feedback,  \* React state `feedback`: NULL or [type, message]
    errors,    \* React state `errors`: field name -> error string
    fetches,   \* the calls of fetch('/api/contact') that have not been handled yet
    submits,   \* history: number of runs of the contact onSubmit
    posts,     \* history: number of calls of fetch('/api/contact')
    served,    \* history: the latest exchanges of handleContact, newest first
    pathname,        \* location.pathname of the router
    mobileMenuOpen,  \* React state `mobileMenuOpen` of NavBar
    routeEffects,    \* the effects of the latest render have not run yet
    docTitle,        \* document.title
    metas,           \* the meta elements of the document, in document order
    lastMeta,        \* history: the options of the latest run of usePageMeta
    mounts,          \* history: number of runs of pageMount
    menuWas          \* history: mobileMenuOpen before the effects ran last

plannerVars == <<form, result, timers, last, prev, lastAct>>

contactVars == <<cform, loading, feedback, errors, fetches, submits, posts, served>>

siteVars ==
    <<pathname, mobileMenuOpen, routeEffects, docTitle, metas, lastMeta, mounts,
      menuWas>>

vars == <<plannerVars, contactVars, siteVars>>

\* ---------------------------------------------------------------- bounds

\* at most this many scroll timeouts are pending at once
MaxTimers == 2

\* number of check boxes the user works with in the sequence scenario
MaxBoxes == 2

\* ------------------------------------------------------------ the values

\* useState(null), useRef(null)
NULL == [null |-> TRUE]

\* formRef is created with null and is never attached to the <form> element
formRefCurrent == NULL

\* the names of the five check boxes, in document order
CheckboxNames == <<"hiking", "swimming", "market", "party", "picnic">>

\* the options of <select name="vibe"> and <select name="group">
VibeOptions == {"relaxing", "adventurous", "celebratory"}
GroupOptions == {"my family", "my friends", "my colleagues"}

\* values only a tampered request carries: an empty and an unknown string
TamperedVibes == {"", "spooky"}
TamperedGroups == {"", "my rivals"}

\* contents of the name input (not required to be filled by the handler)
Names == {"", "Nkosinathi"}

Range(s) == {s[i] : i \in 1..Len(s)}

\* the form as the handlers find it: the values of the controls, the checked
\* boxes, and the selects a tampered document leaves out of the submission
Forms ==
    {f \in [name : Names,
            vibe : VibeOptions \cup TamperedVibes,
            group : GroupOptions \cup TamperedGroups,
            checked : SUBSET Range(CheckboxNames),
            omitted : SUBSET {"vibe", "group"}] :
        /\ "vibe" \in f.omitted => f.vibe = "relaxing"
        /\ "group" \in f.omitted => f.group = "my family"}

\* defaultValue of the controls
DefaultForm ==
    [name |-> "", vibe |-> "relaxing", group |-> "my family",
     checked |-> {}, omitted |-> {}]

\* new FormData(form): one entry per submitted control; a checked box without
\* a value attribute submits "on", an unchecked box submits nothing
FormData(f) ==
    [k \in ({"name", "vibe", "group"} \ f.omitted) \cup f.checked |->
        CASE k = "name" -> f.name
          [] k = "vibe" -> f.vibe
          [] k = "group" -> f.group
          [] OTHER -> "on"]

\* data.get(k) in a boolean context: null and "" are falsy
Truthy(data, k) == k \in DOMAIN data /\ data[k] # ""

\* String(data.get(k) || d)
GetOr(data, k, d) == IF Truthy(data, k) THEN data[k] ELSE d

\* picks.includes(x)
Includes(s, x) == \E i \in 1..Len(s) : s[i] = x

\* faulty variant: the label pushed for the party box is spelled differently
\* from the one buildRecs looks for
PicksOtherSpelling(data) ==
    (IF Truthy(data, "hiking") THEN <<"Hiking">> ELSE <<>>)
    \o (IF Truthy(data, "swimming") THEN <<"Swimming">> ELSE <<>>)
    \o (IF Truthy(data, "market") THEN <<"Market">> ELSE <<>>)
    \o (IF Truthy(data, "party") THEN <<"Festive party">> ELSE <<>>)
    \o (IF Truthy(data, "picnic") THEN <<"Relaxed Picnic">> ELSE <<>>)

\* faulty variant: the test of the picnic box reads the party box
PicksCopyPaste(data) ==
    (IF Truthy(data, "hiking") THEN <<"Hiking">> ELSE <<>>)
    \o (IF Truthy(data, "swimming") THEN <<"Swimming">> ELSE <<>>)
    \o (IF Truthy(data, "market") THEN <<"Market">> ELSE <<>>)
    \o (IF Truthy(data, "party") THEN <<"Festive Party">> ELSE <<>>)
    \o (IF Truthy(data, "party") THEN <<"Relaxed Picnic">> ELSE <<>>)

\* faulty variant: the two "Then enjoy" boxes are read before the other three
PicksEnjoyFirst(data) ==
    (IF Truthy(data, "party") THEN <<"Festive Party">> ELSE <<>>)
    \o (IF Truthy(data, "picnic") THEN <<"Relaxed Picnic">> ELSE <<>>)
    \o (IF Truthy(data, "hiking") THEN <<"Hiking">> ELSE <<>>)
    \o (IF Truthy(data, "swimming") THEN <<"Swimming">> ELSE <<>>)
    \o (IF Truthy(data, "market") THEN <<"Market">> ELSE <<>>)

\* the five conditional picks.push(...) of onSubmit
Picks(data) ==
    (IF Truthy(data, "hiking") THEN <<"Hiking">> ELSE <<>>)
    \o (IF Truthy(data, "swimming") THEN <<"Swimming">> ELSE <<>>)
    \o (IF Truthy(data, "market") THEN <<"Market">> ELSE <<>>)
    \o (IF Truthy(data, "party") THEN <<"Festive Party">> ELSE <<>>)
    \o (IF Truthy(data, "picnic") THEN <<"Relaxed Picnic">> ELSE <<>>)

\* the record that add(t, d, h) pushes
Rec(t, d, h) == [title |-> t, description |-> d, href |-> h]

\* ---------------------------------------------------------------- buildRecs

\* the catalogue texts as in the source; its em dash is written "--" here

TrailHead ==
    Rec("Trail Head",
        "Scenic loop suitable for families and beginners -- perfect for photos and gentle exercise.",
        "/activities#trails")

\* faulty variant: the pool record is added without a link
SwimmingPoolNoLink ==
    Rec("Swimming Pool",
        "Seasonal pool area for warm days; suitable for families. Towels and changing rooms available on request.",
        "")

SwimmingPool ==
    Rec("Swimming Pool",
        "Seasonal pool area for warm days; suitable for families. Towels and changing rooms available on request.",
        "/activities#pool")

FarmersMarket ==
    Rec("Farmers Market",
        "Seasonal food stalls from local producers -- great for casual lunches and discovering local flavours.",
        "/activities#market")

CelebrationLawn ==
    Rec("Celebration Lawn",
        "Large open lawn ideal for parties, graduations and ceremonies. We support event logistics and photography.",
        "/event-plan#celebration")

PicnicSpots ==
    Rec("Picnic Spots",
        "Quiet west-ridge picnic sites with golden-hour views -- bring a blanket and relax.",
        "/activities#picnic")

\* faulty variant: the starter Trail Head links to the top of the page
StarterSetOtherLink ==
    << Rec("Celebration Lawn",
           "A versatile event space that works for parties and photos.",
           "/event-plan#celebration"),
       Rec("Trail Head",
           "Short, scenic trails perfect for family walks.",
           "/activities"),
       Rec("Picnic Spots",
           "Relaxed picnic areas under acacia trees.",
           "/activities#picnic") >>

\* faulty variant: the starter set with its first two records exchanged
StarterSetTrailFirst ==
    << Rec("Trail Head",
           "Short, scenic trails perfect for family walks.",
           "/activities#trails"),
       Rec("Celebration Lawn",
           "A versatile event space that works for parties and photos.",
           "/event-plan#celebration"),
       Rec("Picnic Spots",
           "Relaxed picnic areas under acacia trees.",
           "/activities#picnic") >>

\* the starter set pushed when no pick matched
StarterSet ==
    << Rec("Celebration Lawn",
           "A versatile event space that works for parties and photos.",
           "/event-plan#celebration"),
       Rec("Trail Head",
           "Short, scenic trails perfect for family walks.",
           "/activities#trails"),
       Rec("Picnic Spots",
           "Relaxed picnic areas under acacia trees.",
           "/activities#picnic") >>

\* faulty variant: the bonus record carries the title of the party record
PartyReadySpacesSameTitle ==
    Rec("Celebration Lawn",
        "Dedicated areas with space for marquees, music and catering.",
        "/event-plan#celebration")

\* the record unshifted for the celebratory vibe
PartyReadySpaces ==
    Rec("Party-Ready Spaces",
        "We recommend our Celebration Lawn and sheltered marquee areas to keep your guests comfortable.",
        "/event-plan#celebration")

\* faulty variant: one record per pick, in the order of the picks
PickedRecsInPickOrder(picks) ==
    [i \in 1..Len(picks) |->
        CASE picks[i] = "Hiking" -> TrailHead
          [] picks[i] = "Swimming" -> SwimmingPool
          [] picks[i] = "Market" -> FarmersMarket
          [] picks[i] = "Festive Party" -> CelebrationLawn
          [] OTHER -> PicnicSpots]

\* the five `if (picks.includes(...)) add(...)` in source order
PickedRecs(picks) ==
    (IF Includes(picks, "Hiking") THEN <<TrailHead>> ELSE <<>>)
    \o (IF Includes(picks, "Swimming") THEN <<SwimmingPool>> ELSE <<>>)
    \o (IF Includes(picks, "Market") THEN <<FarmersMarket>> ELSE <<>>)
    \o (IF Includes(picks, "Festive Party") THEN <<CelebrationLawn>> ELSE <<>>)
    \o (IF Includes(picks, "Relaxed Picnic") THEN <<PicnicSpots>> ELSE <<>>)

\* faulty variant: the adventurous vibe puts the trail first
buildRecsAdventure(picks, vibe, group) ==
    LET picked == PickedRecs(picks)
        recs == IF Len(picked) = 0 THEN StarterSet ELSE picked
    IN  IF vibe = "celebratory" THEN <<PartyReadySpaces>> \o recs
        ELSE IF vibe = "adventurous" THEN <<TrailHead>> \o recs
        ELSE recs

\* faulty variant: the bonus record is also given to a group of friends
buildRecsForGroup(picks, vibe, group) ==
    LET picked == PickedRecs(picks)
        recs == IF Len(picked) = 0 THEN StarterSet ELSE picked
    IN  IF vibe = "celebratory" \/ group = "my friends"
        THEN <<PartyReadySpaces>> \o recs
        ELSE recs

\* faulty variant: the bonus record is pushed at the end instead of unshifted
buildRecsBonusLast(picks, vibe, group) ==
    LET picked == PickedRecs(picks)
        recs == IF Len(picked) = 0 THEN StarterSet ELSE picked
    IN  IF vibe = "celebratory" THEN recs \o <<PartyReadySpaces>> ELSE recs

buildRecs(picks, vibe, group) ==
    LET picked == PickedRecs(picks)
        recs == IF Len(picked) = 0 THEN StarterSet ELSE picked
    IN  IF vibe = "celebratory" THEN <<PartyReadySpaces>> \o recs ELSE recs

\* ----------------------------------------------------------------- onSubmit

\* picks.join(sep)
RECURSIVE Join(_, _)
Join(s, sep) ==
    IF Len(s) = 0 THEN ""
    ELSE IF Len(s) = 1 THEN s[1]
    ELSE s[1] \o sep \o Join(Tail(s), sep)

\* the template literal of the summary
Summary(vibe, group, picks) ==
    "A " \o vibe \o " day for " \o group \o ", including "
    \o (IF Len(picks) # 0 THEN Join(picks, ", ") ELSE "a mix of activities")
    \o "."

\* faulty variant: the default of the group is the bare word
SubmitResultBareDefault(data) ==
    LET vibe == GetOr(data, "vibe", "relaxing")
        group == GetOr(data, "group", "family")
        picks == Picks(data)
    IN  [summary |-> Summary(vibe, group, picks),
         recs |-> buildRecs(picks, vibe, group)]

\* faulty variant: the list of records outlives the call and keeps growing
SubmitResultCarryOver(data) ==
    LET vibe == GetOr(data, "vibe", "relaxing")
        group == GetOr(data, "group", "my family")
        picks == Picks(data)
    IN  [summary |-> Summary(vibe, group, picks),
         recs |-> (IF result = NULL THEN <<>> ELSE result.recs)
                  \o buildRecs(picks, vibe, group)]

\* faulty variant: the handler returns early, without a result, when the name is empty
SubmitResultNeedsName(data) ==
    LET vibe == GetOr(data, "vibe", "relaxing")
        group == GetOr(data, "group", "my family")
        picks == Picks(data)
    IN  IF ~Truthy(data, "name")
        THEN NULL
        ELSE [summary |-> Summary(vibe, group, picks),
              recs |-> buildRecs(picks, vibe, group)]

\* the value onSubmit passes to setResult for the submitted entries
SubmitResult(data) ==
    LET vibe == GetOr(data, "vibe", "relaxing")
        group == GetOr(data, "group", "my family")
        picks == Picks(data)
    IN  [summary |-> Summary(vibe, group, picks),
         recs |-> buildRecs(picks, vibe, group)]

\* what a run of onSubmit on the form contents f does to the page
SubmitEffect(f) ==
    /\ timers < MaxTimers
    /\ result' = SubmitResult(FormData(f))
    /\ timers' = timers + 1
    /\ last' = [form |-> f, picks |-> Picks(FormData(f)), out |-> result']
    /\ prev' \in {prev, last}
    /\ lastAct' = "submit"
    /\ UNCHANGED <<contactVars, siteVars>>

\* the user presses "Show me what's possible" on the form as it stands
onSubmit ==
    /\ SubmitEffect(form)
    /\ UNCHANGED form

\* faulty variant: Clear resets the form and leaves the result on the page
onClearFormOnly ==
    /\ form' = IF formRefCurrent = NULL THEN form ELSE DefaultForm
    /\ lastAct' = "clear"
    /\ UNCHANGED <<result, timers, last, prev>>
    /\ UNCHANGED <<contactVars, siteVars>>

\* the user presses "Clear": formRef.current?.reset() and setResult(null)
onClear ==
    /\ form' = IF formRefCurrent = NULL THEN form ELSE DefaultForm
    /\ result' = NULL
    /\ lastAct' = "clear"
    /\ UNCHANGED <<timers, last, prev>>
    /\ UNCHANGED <<contactVars, siteVars>>

\* a scheduled timeout fires: resultsRef.current?.scrollIntoView(...)
scrollTimer ==
    /\ timers > 0
    /\ timers' = timers - 1
    /\ UNCHANGED <<form, result, last, prev, lastAct>>
    /\ UNCHANGED <<contactVars, siteVars>>

\* ------------------------------------------------ the planner: result cards

\* <Link to={r.href || '/activities'}>
LearnMoreTarget(r) == IF r.href # "" THEN r.href ELSE "/activities"

\* the cards rendered for the displayed result: the list key and the target
\* of "Learn more" of each
Cards ==
    IF result = NULL THEN <<>>
    ELSE [i \in 1..Len(result.recs) |->
            [key |-> result.recs[i].title,
             learnMore |-> LearnMoreTarget(result.recs[i])]]

\* ------------------------------------------------------------- usePageMeta

\* a meta element
Meta(name, content) == [name |-> name, content |-> content]

\* the options of the pages that call usePageMeta
IndexMeta ==
    [title |-> "Kafen Farm | Farm Resort, Lodge & Venue in Johannesburg South",
     description |-> "Experience Kafen Farm, a beautiful farm resort and lodge in Elandsfontein, next to Lawley. We cater to all age groups for events, getaways, hiking, and family fun.",
     keywords |-> "Kafen Farm, farm resort Johannesburg South, lodge near Lawley, event venues Elandsfontein, Kafen Farm bookings, party venues Joburg South, resort in Lawley, hiking trails near Lawley, family activities Johannesburg South"]

ActivitiesMeta ==
    [title |-> "Hiking, Picnic Spots & Activities at Kafen Farm | Johannesburg South",
     description |-> "Looking for things to do near Lawley? Kafen Farm offers safe hiking trails, picnic spots, swimming pool access, and seasonal farmers market food stalls for the whole family at our Elandsfontein farm.",
     keywords |-> "hiking trails near Lawley, family farm activities JHB South, picnic spots Elandsfontein, swimming pool Johannesburg South, things to do in Johannesburg South, Kafen Farm"]

EventPlanMeta ==
    [title |-> "Host Your Event | Kafen Farm | Johannesburg South Venues",
     description |-> "Book Kafen Farm in Elandsfontein for your next event. We are a top-rated party and celebration venue in Johannesburg South, perfect for all age groups.",
     keywords |-> "party venues Joburg South, event venues Elandsfontein, Kafen Farm bookings, team building venues Johannesburg South, farm resort Johannesburg South"]

\* options a page can pass without keywords, or with empty ones
PlainMeta == [title |-> "Contact | Kafen Farm", description |-> "Get in touch."]

EmptyKeywordsMeta ==
    [title |-> "Gallery | Kafen Farm", description |-> "", keywords |-> ""]

MetaOptions == {IndexMeta, ActivitiesMeta, EventPlanMeta, PlainMeta, EmptyKeywordsMeta}

\* document.querySelector(`meta[name="${name}"]`): the index of the first
\* such element, 0 for null
QueryMeta(ms, name) ==
    IF \E i \in 1..Len(ms) : ms[i].name = name
    THEN CHOOSE i \in 1..Len(ms) :
            /\ ms[i].name = name
            /\ \A j \in 1..(i - 1) : ms[j].name # name
    ELSE 0

\* faulty variant: a new element is appended on every call
setMetaAppend(ms, name, content) == Append(ms, Meta(name, content))

\* setMeta(name, content)
setMeta(ms, name, content) ==
    LET el == QueryMeta(ms, name)
    IN  IF el # 0
        THEN [ms EXCEPT ![el].content = content]
        ELSE Append(ms, Meta(name, content))

\* if (keywords)
HasKeywords(o) == "keywords" \in DOMAIN o /\ o.keywords # ""

\* the meta elements after the effect of usePageMeta(o)
MetasAfter(ms, o) ==
    LET withDescription == setMeta(ms, "description", o.description)
    IN  IF HasKeywords(o)
        THEN setMeta(withDescription, "keywords", o.keywords)
        ELSE withDescription

\* the effect of usePageMeta(o) on the document
usePageMeta(o) ==
    /\ docTitle' = o.title
    /\ metas' = MetasAfter(metas, o)
    /\ lastMeta' = o

\* the documents the site can be served with: at most one meta per name
InitialDocs ==
    {first \o rest :
        first \in {<<>>, <<Meta("viewport", "width=device-width, initial-scale=1.0")>>},
        rest \in {<<>>,
                  <<Meta("description", "Kafen Farm")>>,
                  <<Meta("keywords", "farm")>>,
                  <<Meta("description", "Kafen Farm"), Meta("keywords", "farm")>>,
                  <<Meta("keywords", "farm"), Meta("description", "Kafen Farm")>>}}

\* at most this many page mounts in the scenario of the hook alone
MaxMounts == 3

\* a page that calls usePageMeta with options o is mounted and its effect runs
pageMount ==
    \E o \in MetaOptions :
        /\ mounts < MaxMounts
        /\ mounts' = mounts + 1
        /\ usePageMeta(o)
        /\ UNCHANGED <<pathname, mobileMenuOpen, routeEffects, menuWas>>
        /\ UNCHANGED <<plannerVars, contactVars>>

\* ------------------------------------------------------------------ NavBar

\* the routes of the links of the site
Paths == {"/", "/activities", "/event-plan", "/contact"}

\* the options of the page of a route, NULL for a page without usePageMeta
PageMetaOf(p) ==
    CASE p = "/" -> IndexMeta
      [] p = "/activities" -> ActivitiesMeta
      [] p = "/event-plan" -> EventPlanMeta
      [] OTHER -> NULL

\* <Sheet onOpenChange={setMobileMenuOpen}>: the user opens or closes the menu
onOpenChange ==
    \E open \in BOOLEAN :
        /\ ~routeEffects
        /\ open # mobileMenuOpen
        /\ mobileMenuOpen' = open
        /\ UNCHANGED <<pathname, routeEffects, docTitle, metas, lastMeta, mounts, menuWas>>
        /\ UNCHANGED <<plannerVars, contactVars>>

\* a link or the browser changes location.pathname; the page of the route is
\* rendered and the effects of the render are scheduled
navigate ==
    \E p \in Paths :
        /\ ~routeEffects
        /\ p # pathname
        /\ pathname' = p
        /\ routeEffects' = TRUE
        /\ UNCHANGED <<mobileMenuOpen, docTitle, metas, lastMeta, mounts, menuWas>>
        /\ UNCHANGED <<plannerVars, contactVars>>

\* faulty variant: NavBar has no effect that closes the menu
flushEffectsNoClose ==
    /\ routeEffects
    /\ routeEffects' = FALSE
    /\ IF PageMetaOf(pathname) # NULL
       THEN usePageMeta(PageMetaOf(pathname))
       ELSE UNCHANGED <<docTitle, metas, lastMeta>>
    /\ menuWas' = mobileMenuOpen
    /\ UNCHANGED <<pathname, mounts, mobileMenuOpen>>
    /\ UNCHANGED <<plannerVars, contactVars>>

\* the effects that depend on location.pathname run: usePageMeta of the page
\* that was mounted, then setMobileMenuOpen(false) of NavBar
flushEffects ==
    /\ routeEffects
    /\ routeEffects' = FALSE
    /\ IF PageMetaOf(pathname) # NULL
       THEN usePageMeta(PageMetaOf(pathname))
       ELSE UNCHANGED <<docTitle, metas, lastMeta>>
    /\ mobileMenuOpen' = FALSE
    /\ menuWas' = mobileMenuOpen
    /\ UNCHANGED <<pathname, mounts>>
    /\ UNCHANGED <<plannerVars, contactVars>>

\* ------------------------------------------------- the contact page: values

\* the text of a control is a sequence of characters
Whitespace == {" "}

Letters == {"a", "b", "c", "o", "N", "k", "H", "i"}

Digits == {"7"}

\* String.prototype.trim()
RECURSIVE TrimStart(_)
TrimStart(s) ==
    IF s # <<>> /\ Head(s) \in Whitespace THEN TrimStart(Tail(s)) ELSE s

RECURSIVE TrimEnd(_)
TrimEnd(s) ==
    IF s # <<>> /\ s[Len(s)] \in Whitespace
    THEN TrimEnd(SubSeq(s, 1, Len(s) - 1))
    ELSE s

Trim(s) == TrimEnd(TrimStart(s))

\* [^\s@]+ : one or more characters, none of them whitespace or "@"
NoSpaceNoAt(s) ==
    /\ s # <<>>
    /\ \A i \in 1..Len(s) : s[i] \notin Whitespace \cup {"@"}

\* /^[^\s@]+@[^\s@]+\.[^\s@]+$/.test(s)
EmailPattern(s) ==
    \E i, j \in 1..Len(s) :
        /\ i < j
        /\ s[i] = "@"
        /\ s[j] = "."
        /\ NoSpaceNoAt(SubSeq(s, 1, i - 1))
        /\ NoSpaceNoAt(SubSeq(s, i + 1, j - 1))
        /\ NoSpaceNoAt(SubSeq(s, j + 1, Len(s)))

\* values of JSON and of FormData.get: a string or null
JNull == [type |-> "null"]

JStr(s) == [type |-> "string", chars |-> s]

JNum(n) == [type |-> "number", value |-> n]

IsStr(v) == v.type = "string"

\* what the user can have typed into the controls
ContactNames == {<<>>, <<" ">>, <<"N", "k">>}

ContactEmails ==
    {<<>>, <<"a", "@", "b">>, <<"a", "@", "b", ".", "c">>,
     <<"a", "@", "b", ".", "c", "o">>, <<" ", "a", "@", "b", ".", "c", "o">>}

ContactSubjects == {<<>>, <<"H", "i">>}

ContactMessages == {<<>>, <<" ">>, <<"H", "i">>}

\* the controls a tampered document can lack
ContactOmissions == {{}, {"name"}, {"subject"}}

\* the contact form as the handler finds it
ContactForms ==
    {f \in [name : ContactNames, email : ContactEmails,
            subject : ContactSubjects, message : ContactMessages,
            omitted : ContactOmissions] :
        /\ "name" \in f.omitted => f.name = <<>>
        /\ "subject" \in f.omitted => f.subject = <<>>}

\* the controls have no default value
EmptyContactForm ==
    [name |-> <<>>, email |-> <<>>, subject |-> <<>>, message |-> <<>>,
     omitted |-> {}]

\* useState<Record<string, string>>({})
NoErrors == [k \in {} |-> ""]

\* --------------------------------------------- the contact page: onSubmit

\* at most this many runs of the contact onSubmit
MaxSubmits == 2

\* data.get(k) on new FormData(form): the text of the control, null without it
ContactGet(f, k) == IF k \in f.omitted THEN JNull ELSE JStr(f[k])

\* the object formData that onSubmit builds and posts
ContactData(f) ==
    [k \in {"name", "email", "subject", "message"} |-> ContactGet(f, k)]

\* faulty variant: only the presence of the value is tested
BlankNoTrim(v) == IF IsStr(v) THEN FALSE ELSE TRUE

\* !v?.trim()
Blank(v) == IF IsStr(v) THEN Trim(v.chars) = <<>> ELSE TRUE

\* the message for the email field, "" for none
EmailError(formData) ==
    IF Blank(formData["email"])
    THEN "Please add your email."
    ELSE IF ~EmailPattern(formData["email"].chars)
         THEN "Please use a valid email."
         ELSE ""

\* faulty variant: the message field is not checked
NextErrorsNoMessage(formData) ==
    LET failing == (IF Blank(formData["name"]) THEN {"name"} ELSE {})
                   \cup (IF EmailError(formData) # "" THEN {"email"} ELSE {})
    IN  [k \in failing |->
            CASE k = "name" -> "Please add your name."
              [] k = "email" -> EmailError(formData)
              [] OTHER -> "Tell us a bit about your plans."]

\* the object nextErrors
NextErrors(formData) ==
    LET failing == (IF Blank(formData["name"]) THEN {"name"} ELSE {})
                   \cup (IF EmailError(formData) # "" THEN {"email"} ELSE {})
                   \cup (IF Blank(formData["message"]) THEN {"message"} ELSE {})
    IN  [k \in failing |->
            CASE k = "name" -> "Please add your name."
              [] k = "email" -> EmailError(formData)
              [] OTHER -> "Tell us a bit about your plans."]

\* a pending call of fetch: the request is on its way, the response is on its
\* way back, or the call has failed
Sent(body) == [stage |-> "sent", body |-> body]

Replied(status, json) == [stage |-> "replied", status |-> status, json |-> json]

Failed == [stage |-> "failed"]

\* faulty variant: the button stays enabled while loading
contactSubmitAnytime ==
    /\ submits < MaxSubmits
    /\ submits' = submits + 1
    /\ LET formData == ContactData(cform)
           nextErrors == NextErrors(formData)
       IN  IF DOMAIN nextErrors # {}
           THEN /\ errors' = nextErrors
                /\ feedback' = [type |-> "error",
                                message |-> "Please fix the highlighted fields."]
                /\ loading' = FALSE
                /\ UNCHANGED <<fetches, posts>>
           ELSE /\ errors' = NoErrors
                /\ feedback' = NULL
                /\ loading' = TRUE
                /\ fetches' = Append(fetches, Sent([fields |-> formData]))
                /\ posts' = posts + 1
    /\ UNCHANGED <<cform, served>>
    /\ UNCHANGED <<plannerVars, siteVars>>

\* the user presses "Send Message", which is disabled while loading: the
\* handler up to its first await
contactSubmit ==
    /\ ~loading
    /\ submits < MaxSubmits
    /\ submits' = submits + 1
    /\ LET formData == ContactData(cform)
           nextErrors == NextErrors(formData)
       IN  IF DOMAIN nextErrors # {}
           THEN /\ errors' = nextErrors
                /\ feedback' = [type |-> "error",
                                message |-> "Please fix the highlighted fields."]
                /\ loading' = FALSE
                /\ UNCHANGED <<fetches, posts>>
           ELSE /\ errors' = NoErrors
                /\ feedback' = NULL
                /\ loading' = TRUE
                /\ fetches' = Append(fetches, Sent([fields |-> formData]))
                /\ posts' = posts + 1
    /\ UNCHANGED <<cform, served>>
    /\ UNCHANGED <<plannerVars, siteVars>>

\* ------------------------------------------------ POST /api/contact: server

\* z.string().email(): the pattern of zod 3,
\* /^(?!\.)(?!.*\.\.)([A-Z0-9_'+\-\.]*)[A-Z0-9_+-]@([A-Z0-9][A-Z0-9\-]*\.)+[A-Z]{2,}$/i
AlphaNum == Letters \cup Digits

ZodLocalPart(l) ==
    /\ l # <<>>
    /\ \A i \in 1..Len(l) : l[i] \in AlphaNum \cup {"_", "'", "+", "-", "."}
    /\ l[Len(l)] \in AlphaNum \cup {"_", "+", "-"}

ZodDomain(d) ==
    \E k \in 1..Len(d) :
        /\ d[k] = "."
        /\ Len(d) - k >= 2
        /\ \A i \in (k + 1)..Len(d) : d[i] \in Letters
        /\ \A i \in 1..k :
              /\ d[i] \in AlphaNum \cup {"-", "."}
              /\ (i = 1 \/ d[i - 1] = ".") => d[i] \in AlphaNum

ZodEmail(s) ==
    /\ s # <<>>
    /\ s[1] # "."
    /\ \A i \in 1..(Len(s) - 1) : ~(s[i] = "." /\ s[i + 1] = ".")
    /\ \E i \in 1..Len(s) :
          /\ s[i] = "@"
          /\ ZodLocalPart(SubSeq(s, 1, i - 1))
          /\ ZodDomain(SubSeq(s, i + 1, Len(s)))

\* req.body is an object (after express.json) or nothing
IsObject(body) == "fields" \in DOMAIN body

NoBody == [undefined |-> TRUE]

Has(body, k) == k \in DOMAIN body.fields

\* faulty variant: the schema takes any string as the name
SchemaIssuesAnyName(body) ==
    IF ~IsObject(body) THEN {"body"}
    ELSE (IF Has(body, "name") /\ IsStr(body.fields["name"])
          THEN {} ELSE {"name"})
         \cup (IF Has(body, "email") /\ IsStr(body.fields["email"])
                  /\ ZodEmail(body.fields["email"].chars)
               THEN {} ELSE {"email"})
         \cup (IF Has(body, "subject") /\ ~IsStr(body.fields["subject"])
               THEN {"subject"} ELSE {})
         \cup (IF Has(body, "message") /\ IsStr(body.fields["message"])
                  /\ Len(body.fields["message"].chars) >= 1
               THEN {} ELSE {"message"})

\* contactSchema.parse(req.body): the paths of the issues of the ZodError it
\* throws, none when it returns
SchemaIssues(body) ==
    IF ~IsObject(body) THEN {"body"}
    ELSE (IF Has(body, "name") /\ IsStr(body.fields["name"])
             /\ Len(body.fields["name"].chars) >= 1
          THEN {} ELSE {"name"})
         \cup (IF Has(body, "email") /\ IsStr(body.fields["email"])
                  /\ ZodEmail(body.fields["email"].chars)
               THEN {} ELSE {"email"})
         \cup (IF Has(body, "subject") /\ ~IsStr(body.fields["subject"])
               THEN {"subject"} ELSE {})
         \cup (IF Has(body, "message") /\ IsStr(body.fields["message"])
                  /\ Len(body.fields["message"].chars) >= 1
               THEN {} ELSE {"message"})

\* what the try block of handleContact ends with: it returns, or parse throws
\* a ZodError; nothing in it throws another error
TryOutcome(body) == IF SchemaIssues(body) = {} THEN "returned" ELSE "ZodError"

\* handleContact(req, res): the calls of res.json it makes, in order
handleContact(body) ==
    CASE TryOutcome(body) = "returned" ->
            << [status |-> 200,
                json |-> [success |-> TRUE,
                          message |-> "Message received successfully"]] >>
      [] TryOutcome(body) = "ZodError" ->
            << [status |-> 400,
                json |-> [success |-> FALSE,
                          message |-> "Validation error",
                          errors |-> SchemaIssues(body)]] >>
      [] OTHER ->
            << [status |-> 500,
                json |-> [success |-> FALSE,
                          message |-> "Internal server error"]] >>

\* the record of one exchange, and the history with it in front
Exchange(body) == [body |-> body, responses |-> handleContact(body)]

Record(body) ==
    LET h == <<Exchange(body)>> \o served
    IN  IF Len(h) > 2 THEN SubSeq(h, 1, 2) ELSE h

\* the server takes the request of the page and answers it
handlePage ==
    \E i \in 1..Len(fetches) :
        /\ fetches[i].stage = "sent"
        /\ LET rs == handleContact(fetches[i].body)
           IN  fetches' = [fetches EXCEPT ![i] = Replied(rs[1].status, rs[1].json)]
        /\ served' = Record(fetches[i].body)
        /\ UNCHANGED <<cform, loading, feedback, errors, submits, posts>>
        /\ UNCHANGED <<plannerVars, siteVars>>

\* ------------------------------------------ the contact page: after the await

\* a response whose body is not JSON: res.json() rejects and json is {}
EmptyObject == [empty |-> TRUE]

\* something in front of the server answers in its place, with a body that
\* is not JSON
gatewayAnswers ==
    \E i \in 1..Len(fetches) : \E status \in {200, 502} :
        /\ fetches[i].stage = "sent"
        /\ fetches' = [fetches EXCEPT ![i] = Replied(status, EmptyObject)]
        /\ UNCHANGED <<cform, loading, feedback, errors, submits, posts, served>>
        /\ UNCHANGED <<plannerVars, siteVars>>

\* the request or its response is lost: fetch rejects
networkFails ==
    \E i \in 1..Len(fetches) :
        /\ fetches[i].stage \in {"sent", "replied"}
        /\ fetches' = [fetches EXCEPT ![i] = Failed]
        /\ UNCHANGED <<cform, loading, feedback, errors, submits, posts, served>>
        /\ UNCHANGED <<plannerVars, siteVars>>

\* res.ok
Ok(status) == status >= 200 /\ status <= 299

RemoveAt(q, i) == SubSeq(q, 1, i - 1) \o SubSeq(q, i + 1, Len(q))

\* json.message || 'Unable to send message. Please try again later.'
MessageOr(json, d) ==
    IF "message" \in DOMAIN json /\ json.message # "" THEN json.message ELSE d

\* faulty variant: the success test is json.success === true
fetchSettledStrict ==
    \E i \in 1..Len(fetches) :
        LET f == fetches[i]
        IN  /\ f.stage \in {"replied", "failed"}
            /\ fetches' = RemoveAt(fetches, i)
            /\ IF f.stage = "failed"
               THEN /\ feedback' = [type |-> "error",
                                    message |-> "Unable to reach the server. Please try again later."]
                    /\ UNCHANGED cform
               ELSE IF Ok(f.status)
                       /\ "success" \in DOMAIN f.json /\ f.json.success = TRUE
               THEN /\ feedback' = [type |-> "success",
                                    message |-> "Thanks -- we received your message and will reply soon."]
                    /\ cform' = [EmptyContactForm EXCEPT !.omitted = cform.omitted]
               ELSE /\ feedback' = [type |-> "error",
                                    message |-> MessageOr(f.json, "Unable to send message. Please try again later.")]
                    /\ UNCHANGED cform
            /\ loading' = FALSE
            /\ UNCHANGED <<errors, submits, posts, served>>
            /\ UNCHANGED <<plannerVars, siteVars>>

\* faulty variant: a failed call is sent once more
fetchSettledRetry ==
    \E i \in 1..Len(fetches) :
        LET f == fetches[i]
        IN  /\ f.stage \in {"replied", "failed"}
            /\ IF f.stage = "failed"
               THEN /\ fetches' = [fetches EXCEPT ![i] = Sent([fields |-> ContactData(cform)])]
                    /\ posts' = posts + 1
                    /\ UNCHANGED <<cform, feedback, loading>>
               ELSE /\ fetches' = RemoveAt(fetches, i)
                    /\ feedback' = [type |-> IF Ok(f.status) THEN "success" ELSE "error",
                                    message |-> MessageOr(f.json, "")]
                    /\ loading' = FALSE
                    /\ UNCHANGED <<cform, posts>>
            /\ UNCHANGED <<errors, submits, served>>
            /\ UNCHANGED <<plannerVars, siteVars>>

\* faulty variant: setLoading(false) at the end of the try block instead of
\* in a finally block
fetchSettledNoFinally ==
    \E i \in 1..Len(fetches) :
        LET f == fetches[i]
        IN  /\ f.stage \in {"replied", "failed"}
            /\ fetches' = RemoveAt(fetches, i)
            /\ IF f.stage = "failed"
               THEN /\ feedback' = [type |-> "error",
                                    message |-> "Unable to reach the server. Please try again later."]
                    /\ UNCHANGED <<cform, loading>>
               ELSE /\ feedback' = [type |-> IF Ok(f.status) THEN "success" ELSE "error",
                                    message |-> MessageOr(f.json, "")]
                    /\ loading' = FALSE
                    /\ UNCHANGED cform
            /\ UNCHANGED <<errors, submits, posts, served>>
            /\ UNCHANGED <<plannerVars, siteVars>>

\* the rest of onSubmit once the call of fetch has settled: the try block
\* after the await, the catch block and the finally block
fetchSettled ==
    \E i \in 1..Len(fetches) :
        LET f == fetches[i]
        IN  /\ f.stage \in {"replied", "failed"}
            /\ fetches' = RemoveAt(fetches, i)
            /\ IF f.stage = "failed"
               THEN /\ feedback' = [type |-> "error",
                                    message |-> "Unable to reach the server. Please try again later."]
                    /\ UNCHANGED cform
               ELSE IF Ok(f.status)
                       /\ ~("success" \in DOMAIN f.json /\ f.json.success = FALSE)
               THEN /\ feedback' = [type |-> "success",
                                    message |-> "Thanks -- we received your message and will reply soon."]
                    /\ cform' = [EmptyContactForm EXCEPT !.omitted = cform.omitted]
               ELSE /\ feedback' = [type |-> "error",
                                    message |-> MessageOr(f.json, "Unable to send message. Please try again later.")]
                    /\ UNCHANGED cform
            /\ loading' = FALSE
            /\ UNCHANGED <<errors, submits, posts, served>>
            /\ UNCHANGED <<plannerVars, siteVars>>

\* the bodies another client can post: no object at all, or an object whose
\* fields are missing, strings, null or a number
Absent == [type |-> "absent"]

ObjectOf(n, e, sj, m) ==
    LET all == [name |-> n, email |-> e, subject |-> sj, message |-> m]
        keys == {k \in DOMAIN all : all[k] # Absent}
    IN  [fields |-> [k \in keys |-> all[k]]]

ApiNames == {Absent, JStr(<<>>), JStr(<<" ">>), JStr(<<"N", "k">>), JNum(7)}

ApiEmails == {Absent, JStr(<<"a", "@", "b">>), JStr(<<"a", "@", "b", ".", "c", "o">>)}

ApiSubjects == {Absent, JStr(<<"H", "i">>), JNull}

ApiMessages == {JStr(<<>>), JStr(<<"H", "i">>)}

ApiBodies ==
    {NoBody} \cup {ObjectOf(n, e, sj, m) :
                      n \in ApiNames, e \in ApiEmails, sj \in ApiSubjects, m \in ApiMessages}

\* another client posts a body of its own to /api/contact and gets the answer
directPost ==
    \E b \in ApiBodies :
        /\ served' = Record(b)
        /\ UNCHANGED <<cform, loading, feedback, errors, fetches, submits, posts>>
        /\ UNCHANGED <<plannerVars, siteVars>>

\* ----------------------------------------------------------- specifications

\* the site on the planner route, its effects run, with the document of the
\* planner page
SiteSettled ==
    /\ pathname = "/event-plan"
    /\ mobileMenuOpen = FALSE
    /\ routeEffects = FALSE
    /\ docTitle = EventPlanMeta.title
    /\ metas = <<Meta("description", EventPlanMeta.description),
                 Meta("keywords", EventPlanMeta.keywords)>>
    /\ lastMeta = EventPlanMeta
    /\ mounts = 0
    /\ menuWas = FALSE

\* the contact page as it is mounted, with nothing typed into its form
ContactMounted ==
    /\ SiteSettled
    /\ cform = EmptyContactForm
    /\ loading = FALSE
    /\ feedback = NULL
    /\ errors = NoErrors
    /\ fetches = <<>>
    /\ submits = 0
    /\ posts = 0
    /\ served = <<>>

\* the page with the form filled in by the user, before the first submit
Init ==
    /\ ContactMounted
    /\ form \in Forms
    /\ result = NULL
    /\ timers = 0
    /\ last = NULL
    /\ prev = NULL
    /\ lastAct = "none"

Next == onSubmit \/ onClear \/ scrollTimer

Spec == Init /\ [][Next]_vars

\* the check boxes of the sequence scenario
SeqBoxes == SubSeq(<<"party", "hiking", "picnic", "swimming", "market">>, 1, MaxBoxes)

\* the forms the user fills in during the sequence scenario
SeqForms ==
    {f \in Forms :
        /\ f.name \in Names
        /\ f.vibe \in {"relaxing", "celebratory"}
        /\ f.group \in {"my family", "my friends"}
        /\ f.omitted = {}
        /\ f.checked \subseteq Range(SeqBoxes)}

\* the user changes the controls and presses the submit button
fillAndSubmit ==
    \E f \in SeqForms :
        /\ f # form
        /\ form' = f
        /\ SubmitEffect(f)

\* the freshly mounted page
InitSeq ==
    /\ ContactMounted
    /\ form = DefaultForm
    /\ result = NULL
    /\ timers = 0
    /\ last = NULL
    /\ prev = NULL
    /\ lastAct = "none"

NextSeq == fillAndSubmit \/ onSubmit \/ onClear \/ scrollTimer

SpecSeq == InitSeq /\ [][NextSeq]_vars

\* the forms the user moves between in the editing scenario
EditForms ==
    {f \in Forms :
        /\ f.name = ""
        /\ f.vibe \in {"relaxing", "celebratory"}
        /\ f.group \in {"my family", "my friends"}
        /\ f.omitted = {}
        /\ f.checked \subseteq {"hiking"}}

\* the user changes controls of the form; the inputs are uncontrolled and have
\* no change handler, so only the document changes
userEdit ==
    \E f \in EditForms :
        /\ f # form
        /\ form' = f
        /\ UNCHANGED <<result, timers, last, prev, lastAct>>
        /\ UNCHANGED <<contactVars, siteVars>>

NextEdit == userEdit \/ onSubmit \/ onClear \/ scrollTimer

SpecEdit == InitSeq /\ [][NextEdit]_vars

\* the planner as it is mounted
PlannerMounted ==
    /\ form = DefaultForm
    /\ result = NULL
    /\ timers = 0
    /\ last = NULL
    /\ prev = NULL
    /\ lastAct = "none"

\* the contact page with the form filled in by the user, before the first
\* submit
InitContact ==
    /\ PlannerMounted
    /\ SiteSettled
    /\ cform \in ContactForms
    /\ loading = FALSE
    /\ feedback = NULL
    /\ errors = NoErrors
    /\ fetches = <<>>
    /\ submits = 0
    /\ posts = 0
    /\ served = <<>>

NextContact ==
    contactSubmit \/ handlePage \/ gatewayAnswers \/ networkFails \/ fetchSettled

SpecContact == InitContact /\ [][NextContact]_vars

\* every pending call of fetch settles, and the handler then runs on
SpecContactFair ==
    /\ SpecContact
    /\ WF_vars(handlePage \/ gatewayAnswers \/ networkFails)
    /\ WF_vars(fetchSettled)

\* the server alone, with requests of clients other than the page
InitApi == PlannerMounted /\ ContactMounted

NextApi == directPost

SpecApi == InitApi /\ [][NextApi]_vars

\* the site is loaded on one of its routes; the effects of the first render
\* have not run yet
InitSite ==
    /\ PlannerMounted
    /\ cform = EmptyContactForm
    /\ loading = FALSE
    /\ feedback = NULL
    /\ errors = NoErrors
    /\ fetches = <<>>
    /\ submits = 0
    /\ posts = 0
    /\ served = <<>>
    /\ pathname \in Paths
    /\ mobileMenuOpen = FALSE
    /\ routeEffects = TRUE
    /\ docTitle = "Kafen Farm"
    /\ metas \in InitialDocs
    /\ lastMeta = NULL
    /\ mounts = 0
    /\ menuWas = FALSE

NextSite == onOpenChange \/ navigate \/ flushEffects

SpecSite == InitSite /\ [][NextSite]_vars

\* React runs the scheduled effects of a render
SpecSiteFair == SpecSite /\ WF_vars(flushEffects)

\* the hook alone, run by pages with any of the options
InitMeta ==
    /\ InitSite
    /\ pathname = "/"

NextMeta == pageMount

SpecMeta == InitMeta /\ [][NextMeta]_vars

\* -------------------------------------------------------------- type check

TypeOK ==
    /\ form \in Forms
    /\ timers \in 0..MaxTimers
    /\ lastAct \in {"none", "submit", "clear"}
    /\ cform \in ContactForms
    /\ loading \in BOOLEAN
    /\ feedback # NULL => feedback.type \in {"success", "error"}
    /\ DOMAIN errors \subseteq {"name", "email", "message"}
    /\ \A i \in 1..Len(fetches) : fetches[i].stage \in {"sent", "replied", "failed"}
    /\ submits \in 0..MaxSubmits
    /\ posts \in 0..MaxSubmits
    /\ Len(served) <= 2
    /\ pathname \in Paths
    /\ mobileMenuOpen \in BOOLEAN
    /\ routeEffects \in BOOLEAN
    /\ docTitle \in STRING
    /\ \A i \in 1..Len(metas) : metas[i].name \in STRING /\ metas[i].content \in STRING
    /\ lastMeta # NULL => lastMeta \in MetaOptions
    /\ mounts \in 0..MaxMounts
    /\ menuWas \in BOOLEAN
    /\ result # NULL => DOMAIN result = {"summary", "recs"}

\* ------------------------------------------------- vocabulary of the claims

\* the interest flags in canonical order, with the check box, the
\* human-readable name and the record title that belong to each
CanonicalOrder == <<"hiking", "swimming", "market", "festiveParty", "relaxedPicnic">>

FieldOfFlag ==
    [hiking |-> "hiking", swimming |-> "swimming", market |-> "market",
     festiveParty |-> "party", relaxedPicnic |-> "picnic"]

LabelOfFlag ==
    [hiking |-> "Hiking", swimming |-> "Swimming", market |-> "Market",
     festiveParty |-> "Festive Party", relaxedPicnic |-> "Relaxed Picnic"]

TitleOfFlag ==
    [hiking |-> "Trail Head", swimming |-> "Swimming Pool",
     market |-> "Farmers Market", festiveParty |-> "Celebration Lawn",
     relaxedPicnic |-> "Picnic Spots"]

BonusTitle == "Party-Ready Spaces"

FallbackTitles == <<"Celebration Lawn", "Trail Head", "Picnic Spots">>

\* the selected flags of a form, in canonical order
SelectedFlags(f) ==
    SelectSeq(CanonicalOrder, LAMBDA flag : FieldOfFlag[flag] \in f.checked)

\* the submission carries the celebratory vibe
IsCelebratory(f) == "vibe" \notin f.omitted /\ f.vibe = "celebratory"

\* the vibe and the group word a submission carries, the default when it
\* carries none
VibeWord(f) ==
    IF "vibe" \in f.omitted \/ f.vibe = "" THEN "relaxing" ELSE f.vibe

GroupWord(f) ==
    IF "group" \in f.omitted \/ f.group = "" THEN "my family" ELSE f.group

Titles(recs) == [i \in 1..Len(recs) |-> recs[i].title]

\* every order in which the elements of s can be passed
Orderings(s) ==
    {[i \in 1..Len(s) |-> s[p[i]]] : p \in Permutations(1..Len(s))}

\* C1: a submission with a non-empty interest set yields |interests| records,
\* one more for the celebratory vibe, and the interest records are the
\* canonical order hiking, swimming, market, festiveParty, relaxedPicnic
\* filtered to the selected flags; buildRecs gives that same list for every
\* order in which the picks are passed to it.
C1_CanonicalOrder ==
    (last # NULL /\ last.form.checked # {}) =>
        LET f == last.form
            recs == last.out.recs
            bonus == IF IsCelebratory(f) THEN 1 ELSE 0
            flags == SelectedFlags(f)
        IN  /\ Len(recs) = Cardinality(f.checked) + bonus
            /\ SubSeq(Titles(recs), 1 + bonus, Len(recs))
                  = [i \in 1..Len(flags) |-> TitleOfFlag[flags[i]]]
            /\ \A p \in Orderings(last.picks) :
                  buildRecs(p, VibeWord(f), GroupWord(f)) = recs

\* swimming and hiking selected: Trail Head comes before Swimming Pool
C1_Witness ==
    /\ last # NULL
    /\ result = last.out
    /\ last.form.checked = {"swimming", "hiking"}
    /\ ~IsCelebratory(last.form)
    /\ Titles(result.recs) = <<"Trail Head", "Swimming Pool">>

\* C2: a submission with an empty interest set yields the fallback list
\* Celebration Lawn, Trail Head, Picnic Spots, prefixed by the vibe-bonus
\* record exactly when the vibe is celebratory (length 4, else 3).
C2_Fallback ==
    (last # NULL /\ last.form.checked = {}) =>
        LET recs == last.out.recs
        IN  IF IsCelebratory(last.form)
            THEN Len(recs) = 4 /\ Titles(recs) = <<BonusTitle>> \o FallbackTitles
            ELSE Len(recs) = 3 /\ Titles(recs) = FallbackTitles

C2_Witness ==
    /\ last # NULL
    /\ result = last.out
    /\ last.form.checked = {}
    /\ IsCelebratory(last.form)
    /\ Len(result.recs) = 4

\* C3: the first record is the vibe-bonus record if and only if the vibe is
\* celebratory, with interests selected and with the fallback list alike;
\* for any other vibe the bonus record is nowhere in the list.
C3_BonusFirst ==
    last # NULL =>
        LET recs == last.out.recs
        IN  /\ Len(recs) >= 1
            /\ (recs[1].title = BonusTitle) <=> IsCelebratory(last.form)
            /\ ~IsCelebratory(last.form) =>
                  \A i \in 1..Len(recs) : recs[i].title # BonusTitle

C3_Witness ==
    /\ last # NULL
    /\ result = last.out
    /\ IsCelebratory(last.form)
    /\ last.form.checked = {"party", "market"}
    /\ result.recs[1].title = BonusTitle

\* the names of the selected interests, joined by ", " in canonical order
RECURSIVE CommaList(_)
CommaList(flags) ==
    IF flags = <<>> THEN ""
    ELSE LabelOfFlag[Head(flags)]
         \o (IF Tail(flags) = <<>> THEN "" ELSE ", " \o CommaList(Tail(flags)))

\* the summary sentence for a vibe word, a group word and a form's interests
Sentence(v, g, f) ==
    "A " \o v \o " day for " \o g \o ", including "
    \o (IF f.checked = {} THEN "a mix of activities" ELSE CommaList(SelectedFlags(f)))
    \o "."

\* C4: the summary of every submission is "A {vibe} day for {group},
\* including {X}." with X the names of the selected interests joined by ", "
\* in canonical order, or "a mix of activities" when none is selected.
C4_Summary ==
    last # NULL =>
        last.out.summary = Sentence(VibeWord(last.form), GroupWord(last.form), last.form)

C4_Witness ==
    /\ last # NULL
    /\ result = last.out
    /\ last.form.checked = {"picnic", "hiking", "party"}
    /\ result.summary
          = "A adventurous day for my colleagues, including Hiking, Festive Party, Relaxed Picnic."

\* C5 as stated: the group is rendered as family, friends or colleagues
C5_Original ==
    last # NULL =>
        LET f == last.form
        IN  /\ (f.checked = {"hiking"} /\ VibeWord(f) = "relaxing"
                    /\ GroupWord(f) = "my family")
                 => /\ Titles(last.out.recs) = <<"Trail Head">>
                    /\ last.out.summary = "A relaxing day for family, including Hiking."
            /\ (f.checked = {} /\ IsCelebratory(f) /\ GroupWord(f) = "my friends")
                 => last.out.summary
                       = "A celebratory day for friends, including a mix of activities."

\* C5: the group select offers "my family", "my friends" and "my colleagues"
\* (default "my family") and the submitted value is rendered in the summary
\* as it is: {hiking}, relaxing, "my family" gives [Trail Head] and "A
\* relaxing day for my family, including Hiking."; no interests, celebratory,
\* "my friends" gives the bonus record and the fallback list and "A
\* celebratory day for my friends, including a mix of activities."
C5_GroupWords ==
    /\ GroupOptions = {"my family", "my friends", "my colleagues"}
    /\ DefaultForm.group = "my family"
    /\ last # NULL =>
        LET f == last.form
        IN  /\ (f.checked = {"hiking"} /\ VibeWord(f) = "relaxing"
                    /\ GroupWord(f) = "my family")
                 => /\ Titles(last.out.recs) = <<"Trail Head">>
                    /\ last.out.summary
                          = "A relaxing day for my family, including Hiking."
            /\ (f.checked = {} /\ IsCelebratory(f) /\ GroupWord(f) = "my friends")
                 => /\ Titles(last.out.recs) = <<BonusTitle>> \o FallbackTitles
                    /\ last.out.summary
                          = "A celebratory day for my friends, including a mix of activities."
            /\ (f.group \in GroupOptions /\ "group" \notin f.omitted)
                 => last.out.summary = Sentence(VibeWord(f), f.group, f)

C5_Witness ==
    /\ last # NULL
    /\ result = last.out
    /\ last.form.checked = {"hiking"}
    /\ "group" \in last.form.omitted
    /\ result.summary = "A relaxing day for my family, including Hiking."

\* the vibe and the group after the normalisation the claim describes
NormalVibe(f) ==
    IF "vibe" \notin f.omitted /\ f.vibe \in VibeOptions THEN f.vibe ELSE "relaxing"

NormalGroup(f) ==
    IF "group" \notin f.omitted /\ f.group \in GroupOptions THEN f.group ELSE "my family"

\* C6: a vibe that is missing or not one of relaxing, adventurous,
\* celebratory is normalised to relaxing, and a group that is missing or not
\* one of the group values to the default group, so that no unknown word
\* reaches the summary.
C6_Normalized ==
    last # NULL =>
        last.out.summary = Sentence(NormalVibe(last.form), NormalGroup(last.form), last.form)

\* the two forms carry the same vibe, group and interest set
SameInputs(f, g) ==
    /\ f.vibe = g.vibe
    /\ f.group = g.group
    /\ f.checked = g.checked
    /\ f.omitted = g.omitted

\* C7: two submissions with equal inputs yield equal recommendation lists and
\* identical summaries, whatever submissions and clears came before each.
C7_Deterministic ==
    (prev # NULL /\ last # NULL /\ SameInputs(prev.form, last.form)) =>
        /\ prev.out.recs = last.out.recs
        /\ prev.out.summary = last.out.summary

C7_Witness ==
    /\ prev # NULL
    /\ last # NULL
    /\ SameInputs(prev.form, last.form)
    /\ prev.form.name # last.form.name
    /\ last.form.checked # {}
    /\ result = last.out
    /\ timers = 0

\* C8: each of the five check boxes maps to its own interest flag: the flag is
\* among the picks if and only if the field of its box is in the submission,
\* and no flag occurs twice.
C8_CheckboxFlags ==
    last # NULL =>
        LET data == FormData(last.form)
            picks == last.picks
        IN  /\ \A flag \in Range(CanonicalOrder) :
                  (LabelOfFlag[flag] \in Range(picks)) <=> (FieldOfFlag[flag] \in DOMAIN data)
            /\ Range(picks) \subseteq {LabelOfFlag[flag] : flag \in Range(CanonicalOrder)}
            /\ Cardinality(Range(picks)) = Len(picks)

C8_Witness ==
    /\ last # NULL
    /\ result = last.out
    /\ last.form.checked = {"party"}
    /\ last.picks = <<"Festive Party">>

\* a result holding a summary and a list of recommendation records
WellFormed(r) ==
    /\ r # NULL
    /\ DOMAIN r = {"summary", "recs"}
    /\ r.summary \in STRING
    /\ DOMAIN r.recs = 1..Len(r.recs)
    /\ \A i \in 1..Len(r.recs) : DOMAIN r.recs[i] = {"title", "description", "href"}

\* C9: the handler can run on every form, an empty name and an empty interest
\* set included, and every run of it ends with a result holding a summary and
\* a recommendation list.
C9_Total ==
    [][/\ timers < MaxTimers => ENABLED onSubmit
       /\ onSubmit => WellFormed(result')]_vars

C9_Witness ==
    /\ last # NULL
    /\ last.form.name = ""
    /\ last.form.checked = {}
    /\ result = last.out
    /\ WellFormed(result)

\* C10: the recommendation list depends only on the interest set and the
\* vibe: two submissions that differ only in name and group yield the same
\* list, and two that differ only in name yield the same summary.
C10_NameAndGroupBlind ==
    /\ (prev # NULL /\ last # NULL) =>
          /\ (/\ prev.form.vibe = last.form.vibe
              /\ prev.form.checked = last.form.checked
              /\ prev.form.omitted \ {"group"} = last.form.omitted \ {"group"})
                => prev.out.recs = last.out.recs
          /\ SameInputs(prev.form, last.form) => prev.out.summary = last.out.summary
    /\ last # NULL =>
          \A n \in Names :
              /\ SubmitResult(FormData([last.form EXCEPT !.name = n])) = last.out
              /\ \A g \in GroupOptions \cup TamperedGroups :
                    SubmitResult(FormData([last.form EXCEPT !.name = n, !.group = g])).recs
                        = last.out.recs

C10_Witness ==
    /\ prev # NULL
    /\ last # NULL
    /\ prev.form.vibe = last.form.vibe
    /\ prev.form.checked = last.form.checked
    /\ prev.form.name # last.form.name
    /\ prev.form.group # last.form.group
    /\ prev.out.recs = last.out.recs
    /\ result = last.out

\* the list onSubmit yields for the last submitted form with the vibe set to v
RecsWithVibe(v) ==
    SubmitResult(FormData([last.form EXCEPT !.vibe = v,
                                            !.omitted = @ \ {"vibe"}])).recs

\* C11: for the same interest set the vibes relaxing and adventurous give the
\* same recommendation list, and the list for celebratory without its first
\* record is that list too.
C11_VibeOnlyPrepends ==
    last # NULL =>
        /\ RecsWithVibe("relaxing") = RecsWithVibe("adventurous")
        /\ Len(RecsWithVibe("celebratory")) = Len(RecsWithVibe("relaxing")) + 1
        /\ Tail(RecsWithVibe("celebratory")) = RecsWithVibe("relaxing")
        /\ last.out.recs = IF IsCelebratory(last.form)
                           THEN RecsWithVibe("celebratory")
                           ELSE RecsWithVibe("relaxing")

C11_Witness ==
    /\ last # NULL
    /\ result = last.out
    /\ "vibe" \notin last.form.omitted
    /\ last.form.vibe = "adventurous"
    /\ last.form.checked = {"market", "picnic"}
    /\ Tail(RecsWithVibe("celebratory")) = result.recs

\* every record a submission of the planner can output, and those of the
\* submissions without and with a selected interest
OutputRecords ==
    UNION {Range(SubmitResult(FormData(f)).recs) : f \in Forms}

FallbackRecords ==
    UNION {Range(SubmitResult(FormData(f)).recs) : f \in {g \in Forms : g.checked = {}}}

InterestRecords ==
    UNION {Range(SubmitResult(FormData(f)).recs) : f \in {g \in Forms : g.checked # {}}}

\* C12 as stated: two output records with the same title have the same
\* description and the same link
C12_Original ==
    last # NULL =>
        \A r1 \in Range(last.out.recs) : \A r2 \in OutputRecords :
            r1.title = r2.title =>
                r1.description = r2.description /\ r1.href = r2.href

\* C12: two output records with the same title have the same link, and the
\* same description unless one of them is a record of the fallback list and
\* the other a record of a selected interest.
C12_SameTitleSameLink ==
    last # NULL =>
        \A r1 \in Range(last.out.recs) : \A r2 \in OutputRecords :
            r1.title = r2.title =>
                /\ r1.href = r2.href
                /\ \/ r1.description = r2.description
                   \/ r1 \in FallbackRecords /\ r2 \in InterestRecords
                   \/ r1 \in InterestRecords /\ r2 \in FallbackRecords

C12_Witness ==
    /\ last # NULL
    /\ result = last.out
    /\ last.form.checked = {"party"}
    /\ \E r2 \in FallbackRecords :
          /\ r2.title = result.recs[1].title
          /\ r2.description # result.recs[1].description
          /\ r2.href = result.recs[1].href

\* the sentence that ends with the phrase for an empty selection
MixSentence(f) ==
    "A " \o VibeWord(f) \o " day for " \o GroupWord(f)
    \o ", including a mix of activities."

\* the recommendation list is the fallback list, after the bonus record if any
FromFallback(f, recs) ==
    Titles(recs) = (IF IsCelebratory(f) THEN <<BonusTitle>> ELSE <<>>) \o FallbackTitles

\* C16: the recommendation list is built from the fallback list if and only
\* if the summary uses "a mix of activities", and both hold exactly when no
\* check box was selected.
C16_EmptySignalsAgree ==
    last # NULL =>
        /\ FromFallback(last.form, last.out.recs) <=> (last.out.summary = MixSentence(last.form))
        /\ FromFallback(last.form, last.out.recs) <=> (last.form.checked = {})

C16_Witness ==
    /\ last # NULL
    /\ result = last.out
    /\ last.form.checked = {}
    /\ FromFallback(last.form, result.recs)
    /\ result.summary = "A adventurous day for my friends, including a mix of activities."

\* the titles the planner is to show for the form contents f
ExpectedTitles(f) ==
    LET flags == SelectedFlags(f)
    IN  (IF IsCelebratory(f) THEN <<BonusTitle>> ELSE <<>>)
        \o (IF f.checked = {} THEN FallbackTitles
            ELSE [i \in 1..Len(flags) |-> TitleOfFlag[flags[i]]])

\* C17: the displayed result is null at first; after any sequence of Submit
\* and Clear it is non-null exactly when the last of them was a Submit, and it
\* is then the output for the inputs of that Submit; a change of the form
\* fields without a submit leaves the displayed result as it is.
C17_DisplayedResult ==
    /\ [](result # NULL <=> lastAct = "submit")
    /\ [](lastAct = "submit" =>
            /\ result = last.out
            /\ result.summary
                  = Sentence(VibeWord(last.form), GroupWord(last.form), last.form)
            /\ Titles(result.recs) = ExpectedTitles(last.form))
    /\ [][userEdit => result' = result]_vars

\* a result on the page for a form that was edited after the submit
C17_Witness ==
    /\ lastAct = "submit"
    /\ result # NULL
    /\ result = last.out
    /\ last.form.checked = {"hiking"}
    /\ form.checked = {}
    /\ prev # NULL

\* C18: Clear puts every form field back to its default, so that a Submit
\* right after it gives the output for no selection.
C18_ClearResets ==
    [][onClear => /\ form' = DefaultForm
                  /\ FromFallback(form', SubmitResult(FormData(form')).recs)]_vars

\* C19: every Submit schedules exactly one scroll, and a scheduled scroll fires
\* only while a result is displayed.
C19_ScrollOnlyWithResult ==
    [][/\ onSubmit => timers' = timers + 1
       /\ scrollTimer => result # NULL]_vars

\* the fields of the contact form that fail the validation of the page: a
\* name or a message that is empty after trimming, an email that is empty
\* after trimming or does not match the pattern
FailingFields(f) ==
    {k \in {"name", "message"} : k \in f.omitted \/ Trim(f[k]) = <<>>}
    \cup {k \in {"email"} : \/ k \in f.omitted
                            \/ Trim(f.email) = <<>>
                            \/ ~EmailPattern(f.email)}

\* C13: a contact submit that fails the validation of the page sets an error
\* string for exactly the failing fields, sets an error feedback and sends
\* no request to /api/contact.
C13_ValidationBlocks ==
    [][(contactSubmit /\ FailingFields(cform) # {}) =>
          /\ DOMAIN errors' = FailingFields(cform)
          /\ \A k \in DOMAIN errors' : errors'[k] \in STRING /\ errors'[k] # ""
          /\ feedback' # NULL
          /\ feedback'.type = "error"
          /\ posts' = posts
          /\ fetches' = fetches]_vars

\* a name and a message of blanks with a good email
C13_Witness ==
    /\ submits = 1
    /\ cform.name = <<" ">>
    /\ cform.message = <<" ">>
    /\ DOMAIN errors = {"name", "message"}
    /\ feedback # NULL
    /\ feedback.type = "error"
    /\ posts = 0
    /\ fetches = <<>>

\* C14: every contact submit that passes the validation of the page sends
\* exactly one POST to /api/contact, and no other step sends one: whatever
\* comes back, nothing is sent again until the user submits again.
C14_OnePostPerSubmit ==
    [][/\ (contactSubmit /\ FailingFields(cform) = {}) =>
              /\ posts' = posts + 1
              /\ Len(fetches') = Len(fetches) + 1
              /\ fetches'[Len(fetches')].stage = "sent"
       /\ posts' # posts =>
              /\ submits' = submits + 1
              /\ FailingFields(cform) = {}
       /\ Len(fetches') > Len(fetches) => posts' = posts + 1]_vars

\* the one call has failed, the error is shown and nothing is pending
C14_Witness ==
    /\ submits = 1
    /\ posts = 1
    /\ fetches = <<>>
    /\ ~loading
    /\ feedback # NULL
    /\ feedback.message = "Unable to reach the server. Please try again later."

\* the emails of the requests that are valid emails
ValidEmails == {<<"a", "@", "b", ".", "c", "o">>}

\* the body has a non-empty name, a valid email and a non-empty message
NameEmailMessageGood(body) ==
    /\ IsObject(body)
    /\ \A k \in {"name", "email", "message"} :
          k \in DOMAIN body.fields /\ body.fields[k].type = "string"
    /\ body.fields["name"].chars # <<>>
    /\ body.fields["email"].chars \in ValidEmails
    /\ body.fields["message"].chars # <<>>

\* the body has no subject, or a string as its subject
SubjectGood(body) ==
    "subject" \in DOMAIN body.fields => body.fields["subject"].type = "string"

\* C15 as stated: one response per request, and it is 200 with success true
\* if and only if name, email and message are good
C15_Original ==
    \A i \in 1..Len(served) :
        LET rs == served[i].responses
        IN  /\ Len(rs) = 1
            /\ (rs[1].status = 200 /\ rs[1].json.success)
                  <=> NameEmailMessageGood(served[i].body)

\* C15: handleContact sends exactly one response per request: 200 with
\* success true if and only if the body has a non-empty name, a valid email,
\* a non-empty message and a subject that is absent or a string; otherwise
\* 400 with success false and the validation errors; 500 with success false
\* is its only other response; the response depends on the body alone.
C15_OneResponse ==
    /\ \A i \in 1..Len(served) :
          LET rs == served[i].responses
              body == served[i].body
          IN  /\ Len(rs) = 1
              /\ rs[1].status \in {200, 400, 500}
              /\ rs[1].json.success <=> rs[1].status = 200
              /\ rs[1].status = 200
                    <=> (NameEmailMessageGood(body) /\ SubjectGood(body))
              /\ rs[1].status = 400 =>
                    /\ rs[1].json.errors # {}
                    /\ ~NameEmailMessageGood(body) \/ ~SubjectGood(body)
    /\ \A i, j \in 1..Len(served) :
          served[i].body = served[j].body => served[i].responses = served[j].responses

\* an accepted request after one that was rejected for its subject alone
C15_Witness ==
    /\ Len(served) = 2
    /\ served[1].responses[1].status = 200
    /\ served[2].responses[1].status = 400
    /\ served[2].responses[1].json.errors = {"subject"}

\* C20: a contact submit that passes the validation leaves the loading flag
\* set, one that fails it leaves the flag cleared, and when the call of fetch
\* settles, the flag is cleared again on every path.
C20_LoadingEnds ==
    /\ [][contactSubmit => (loading' <=> FailingFields(cform) = {})]_vars
    /\ [][fetchSettled => ~loading']_vars
    /\ loading ~> ~loading

\* the answer was not JSON and not a success: the flag is cleared
C20_Witness ==
    /\ posts = 1
    /\ ~loading
    /\ fetches = <<>>
    /\ feedback # NULL
    /\ feedback.message = "Unable to send message. Please try again later."

\* the response of the settled call is ok and its body does not say
\* success: false
GoodResponse(f) ==
    /\ f.stage = "replied"
    /\ f.status \in 200..299
    /\ "success" \in DOMAIN f.json => f.json.success # FALSE

\* C21: a contact submission ends with success feedback if and only if the
\* response is ok and the success field of its body is not false, a body
\* that is not JSON counting as an empty object; the form is reset if and
\* only if it ends with success feedback; after a server rejection or a
\* network error the feedback is an error and the fields are kept.
C21_SuccessIffOk ==
    [][(fetchSettled /\ Len(fetches) = 1) =>
          /\ feedback' # NULL
          /\ feedback'.type = "success" <=> GoodResponse(fetches[1])
          /\ GoodResponse(fetches[1]) =>
                \A k \in {"name", "email", "subject", "message"} : cform'[k] = <<>>
          /\ ~GoodResponse(fetches[1]) =>
                feedback'.type = "error" /\ cform' = cform /\ cform.name # <<>>]_vars

\* an answer with status 200 that is not JSON and did not come from the
\* handler: success feedback and an empty form
C21_Witness ==
    /\ posts = 1
    /\ served = <<>>
    /\ fetches = <<>>
    /\ feedback # NULL
    /\ feedback.type = "success"
    /\ cform.name = <<>>
    /\ cform.email = <<>>

C23_ClientAsStrict ==
    /\ \A i \in 1..Len(fetches) :
          fetches[i].stage = "sent" =>
              \A k \in {"name", "message"} :
                  /\ fetches[i].body.fields[k].type = "string"
                  /\ Len(fetches[i].body.fields[k].chars) >= 1
    /\ \A i \in 1..Len(served) :
          served[i].responses[1].status = 400 =>
              served[i].responses[1].json.errors \cap {"name", "message"} = {}

\* the server rejects a payload of the page, but for its email
C23_Witness ==
    /\ Len(served) = 1
    /\ served[1].responses[1].status = 400
    /\ served[1].responses[1].json.errors = {"email"}
    /\ served[1].body.fields["name"].chars = <<"N", "k">>

\* C25: the titles of the records of one planner result are pairwise
\* distinct, so that the list keys of the cards are.
C25_DistinctTitles ==
    /\ last # NULL =>
          \A i, j \in 1..Len(last.out.recs) :
              i # j => last.out.recs[i].title # last.out.recs[j].title
    /\ \A i, j \in 1..Len(Cards) : i # j => Cards[i].key # Cards[j].key

\* the celebratory vibe with the Festive Party interest
C25_Witness ==
    /\ last # NULL
    /\ result = last.out
    /\ IsCelebratory(last.form)
    /\ last.form.checked = {"party"}
    /\ Len(Cards) = 2
    /\ Cards[1].key = BonusTitle
    /\ Cards[2].key = "Celebration Lawn"

\* C26: the target of "Learn more" of every card is the link of its record,
\* and every record has a link, so that the default target is not used.
C26_OwnLink ==
    /\ \A i \in 1..Len(Cards) :
          /\ result.recs[i].href # ""
          /\ Cards[i].learnMore = result.recs[i].href
    /\ last # NULL =>
          \A i \in 1..Len(last.out.recs) :
              /\ last.out.recs[i].href # ""
              /\ LearnMoreTarget(last.out.recs[i]) = last.out.recs[i].href

\* all five interests: five cards, each with its own target
C26_Witness ==
    /\ result # NULL
    /\ Len(Cards) = 5
    /\ Cards[2].learnMore = "/activities#pool"
    /\ Cards[4].learnMore = "/event-plan#celebration"

\* C24: the mobile menu closes when the route changes: the effects that a
\* change of the path schedules run before anything else happens and leave
\* the menu closed, whatever it was before, and the menu opens again only
\* when the user opens it.
C24_MenuClosesOnRouteChange ==
    /\ [][pathname' # pathname => routeEffects']_vars
    /\ [][routeEffects => (flushEffects /\ ~mobileMenuOpen')]_vars
    /\ [][(~mobileMenuOpen /\ mobileMenuOpen') => (onOpenChange /\ pathname' = pathname)]_vars
    /\ routeEffects ~> (~routeEffects /\ ~mobileMenuOpen)

\* the menu was open when a link to the planner was followed, and it is
\* closed on the planner route
C24_Witness ==
    /\ pathname = "/event-plan"
    /\ ~routeEffects
    /\ menuWas
    /\ ~mobileMenuOpen
    /\ lastMeta = EventPlanMeta

\* the number of meta elements with a name
CountMeta(ms, name) == Cardinality({i \in 1..Len(ms) : ms[i].name = name})

\* the meta elements with a name, in document order
MetasNamed(ms, name) == SelectSeq(ms, LAMBDA m : m.name = name)

\* C27: after any number of page mounts that run usePageMeta the document
\* has at most one description meta and at most one keywords meta, its title
\* and its description meta are those of the latest call, and a call
\* without keywords leaves the keywords meta as it was.
C27_PageMeta ==
    /\ [](CountMeta(metas, "description") <= 1 /\ CountMeta(metas, "keywords") <= 1)
    /\ [](lastMeta # NULL =>
            /\ docTitle = lastMeta.title
            /\ MetasNamed(metas, "description")
                  = <<Meta("description", lastMeta.description)>>)
    /\ [][(mounts' # mounts /\ "keywords" \notin DOMAIN lastMeta') =>
              MetasNamed(metas', "keywords") = MetasNamed(metas, "keywords")]_vars

\* the keywords of the home page are still there after a page without
\* keywords was mounted
C27_Witness ==
    /\ lastMeta = PlainMeta
    /\ docTitle = PlainMeta.title
    /\ MetasNamed(metas, "keywords") = <<Meta("keywords", IndexMeta.keywords)>>
    /\ MetasNamed(metas, "description") = <<Meta("description", PlainMeta.description)>>

====
